---- MODULE Spec2Model ----
(***************************************************************************)
(* The Xbox connection of src/connections/Xbox/index.ts: handleCallback    *)
(* and the three chained requests it makes (exchangeCode, getUserToken,    *)
(* getUser) followed by hasConnection / createConnection.  Several         *)
(* invocations run on one event loop: each action is the code that runs    *)
(* between one await and the next.                                         *)
(***************************************************************************)
EXTENDS Integers, Sequences, FiniteSets, Bags, TLC

\* ------------------------------------------------------------------ bounds
NumCalls == 2
MaxTime == 1

Calls == 1 .. NumCalls
Times == 0 .. MaxTime

\* ------------------------------------------------------------ JS values
\* JavaScript's undefined (an absent property, an unset optional argument).
Absent == "undefined"

\* `if (x)` on a string or undefined: undefined and "" are falsy.
Truthy(x) == x # Absent /\ x # ""

\* ------------------------------------------------------- program constants
id == "xbox"
GENERAL_ERROR == "GENERAL_ERROR"
INVALID_OAUTH_TOKEN == "INVALID_OAUTH_TOKEN"
TypeError == "TypeError"
InvalidStateError == "INVALID_OAUTH_STATE"
NoError == "none"

Stages == {"A", "B", "C"}

\* ------------------------------------------------------------ State Codec
Users == {"u1", "u2"}
Garbage == "garbage"

\* The token createState("u1") issued, and three tokens validateState must
\* refuse: one altered to name u2, one too old, one that is not a token.
ValidU1 == [uid |-> "u1", integrity |-> "ok"]
Tampered == [uid |-> "u2", integrity |-> "tampered"]
Expired == [uid |-> "u1", integrity |-> "expired"]
Malformed == [uid |-> Garbage, integrity |-> "malformed"]

StateTokens == {ValidU1, Tampered, Expired, Malformed}

\* validateState(state): TRUE when it returns, FALSE when it raises
\* InvalidStateError.
validateState(state) == state.integrity = "ok"

\* getUserId(state): the ids the call may return.  On a token validateState
\* accepts it is the embedded id; on any other token the result is
\* undefined: any id, something that is no id, or nothing.
getUserId(state) ==
  IF validateState(state)
  THEN {state.uid}
  ELSE Users \cup {Garbage, Absent}

\* ------------------------------------------------------------------ inputs
\* ConnectionCallbackSchema values handed to handleCallback, and the
\* arguments of direct exchangeCode calls.
Callbacks ==
  { [entry |-> "handleCallback", state |-> ValidU1, code |-> "abc123", friend_sync |-> TRUE],
    [entry |-> "handleCallback", state |-> Tampered, code |-> "abc123", friend_sync |-> TRUE],
    [entry |-> "handleCallback", state |-> Expired, code |-> "abc123", friend_sync |-> FALSE],
    [entry |-> "handleCallback", state |-> Malformed, code |-> "abc123", friend_sync |-> FALSE] }

Exchanges ==
  { [entry |-> "exchangeCode", state |-> ValidU1, code |-> "abc123", friend_sync |-> FALSE],
    [entry |-> "exchangeCode", state |-> Tampered, code |-> "abc123", friend_sync |-> FALSE] }

\* Callbacks whose code is the empty string or is missing (`code?` of the
\* schema), with a state validateState accepts.
CallbacksNoCode ==
  { [entry |-> "handleCallback", state |-> ValidU1, code |-> "", friend_sync |-> TRUE],
    [entry |-> "handleCallback", state |-> ValidU1, code |-> Absent, friend_sync |-> FALSE] }

NoParams == [entry |-> "none", state |-> Malformed, code |-> Absent, friend_sync |-> FALSE]

\* ----------------------------------------------------------- configuration
\* XboxSettings: both credentials present, or either one missing.
Configured == [clientId |-> "client-1", clientSecret |-> "secret-1"]
SettingsChoices ==
  [clientId : {"client-1", Absent}, clientSecret : {"secret-1", Absent}]

\* Config.get().cdn.endpointPrivate: set, empty or not set.
PrivateEndpoint == "https://cdn.example.com"
Endpoints == {PrivateEndpoint, "", Absent}
LocalFallback == "http://localhost:3001"

authorizeUrl == "https://login.live.com/oauth20_authorize.srf"
tokenUrl == "https://login.live.com/oauth20_token.srf"
scopes == <<"Xboxlive.signin", "Xboxlive.offline_access">>

\* A template literal, as the sequence of its pieces.
\* redirect_uri as getAuthorizationUrl builds it (lines 61-66).
authorizeRedirectUri(ep) ==
  <<IF Truthy(ep) THEN ep ELSE LocalFallback, "/connections/", id, "/callback">>

\* tokenRedirectUri taking the endpoint as it is configured.
tokenRedirectUriNoFallback(ep) ==
  <<ep, "/connections/", id, "/callback">>

\* redirect_uri as exchangeCode builds it (lines 133-135).
tokenRedirectUri(ep) ==
  <<IF Truthy(ep) THEN ep ELSE LocalFallback, "/connections/", id, "/callback">>

\* createState(userId): the state token minted for a host user.
createState(uid) == [uid |-> uid, integrity |-> "ok"]

\* The URL getAuthorizationUrl returns (lines 55-72), by its query
\* parameters; a missing value is appended as the text "undefined".
AuthorizationUrl(uid, st, ep) ==
  [url |-> authorizeUrl, client_id |-> st.clientId,
   redirect_uri |-> authorizeRedirectUri(ep), response_type |-> "code",
   scope |-> scopes, state |-> createState(uid), approval_prompt |-> "auto"]

\* Headers and form body of the Stage A request (lines 120-138).
TokenForm(code, st, ep) ==
  [url |-> tokenUrl, authorization |-> <<"Basic", st.clientId, st.clientSecret>>,
   grant_type |-> "authorization_code", code |-> code,
   client_id |-> st.clientId, redirect_uri |-> tokenRedirectUri(ep),
   scope |-> scopes]
NoForm ==
  [url |-> Absent, authorization |-> << >>, grant_type |-> Absent,
   code |-> Absent, client_id |-> Absent, redirect_uri |-> << >>,
   scope |-> << >>]

\* ------------------------------------------------------- provider answers
\* A fetch outcome: net = FALSE is a transport failure (fetch rejects);
\* ok is res.ok; json = FALSE is a body res.json() cannot parse.
NoClaims == << >>
E1 == [xid |-> "X1", gtg |-> "Gamer1"]
E2 == [xid |-> "X2", gtg |-> "Gamer2"]

Resp(net, ok, json, error, access_token, Token, claims, xui) ==
  [net |-> net, ok |-> ok, json |-> json, error |-> error,
   access_token |-> access_token, Token |-> Token, claims |-> claims, xui |-> xui]

NetFail == Resp(FALSE, FALSE, FALSE, Absent, Absent, Absent, FALSE, NoClaims)
Non2xx == Resp(TRUE, FALSE, TRUE, Absent, Absent, Absent, FALSE, NoClaims)
BadJson == Resp(TRUE, TRUE, FALSE, Absent, Absent, Absent, FALSE, NoClaims)
\* a status outside 2xx whose body nevertheless reads like a success
Non2xxBody == Resp(TRUE, FALSE, TRUE, Absent, "AT1", "ST1", TRUE, <<E1>>)

ResponsesA ==
  { NetFail, Non2xx, Non2xxBody, BadJson,
    Resp(TRUE, TRUE, TRUE, Absent, "AT1", Absent, FALSE, NoClaims),
    Resp(TRUE, TRUE, TRUE, "", "AT1", Absent, FALSE, NoClaims),
    Resp(TRUE, TRUE, TRUE, "invalid_grant", Absent, Absent, FALSE, NoClaims),
    Resp(TRUE, TRUE, TRUE, "invalid_client", Absent, Absent, FALSE, NoClaims) }

ResponsesB ==
  { NetFail, Non2xx, Non2xxBody, BadJson,
    Resp(TRUE, TRUE, TRUE, Absent, Absent, "ST1", FALSE, NoClaims),
    Resp(TRUE, TRUE, TRUE, Absent, Absent, Absent, FALSE, NoClaims) }

ResponsesC ==
  { NetFail, Non2xx, Non2xxBody, BadJson,
    Resp(TRUE, TRUE, TRUE, "bad_token", Absent, Absent, TRUE, <<E1>>),
    Resp(TRUE, TRUE, TRUE, "expired_token", Absent, Absent, TRUE, <<E1>>),
    Resp(TRUE, TRUE, TRUE, "", Absent, Absent, TRUE, <<E1>>),
    Resp(TRUE, TRUE, TRUE, Absent, Absent, Absent, TRUE, <<E1>>),
    Resp(TRUE, TRUE, TRUE, Absent, Absent, Absent, TRUE, <<E2, E1>>),
    Resp(TRUE, TRUE, TRUE, Absent, Absent, Absent, TRUE, NoClaims),
    Resp(TRUE, TRUE, TRUE, Absent, Absent, Absent, FALSE, NoClaims) }

\* What an answer looks like on the wire, as the trace records it: no
\* answer at all, a status outside 2xx, a 2xx body that is not JSON, a 2xx
\* JSON body reporting an error, any other 2xx JSON body.
RespClass(r) ==
  IF ~r.net THEN "neterr"
  ELSE IF ~r.ok THEN "non2xx"
  ELSE IF ~r.json THEN "2xx:unparseable"
  ELSE IF r.error # Absent /\ r.error # "" THEN "2xx:error"
  ELSE "2xx"

\* ------------------------------------------------------ promise chains
\* An outcome of a stage: ok = FALSE is a rejected promise carrying err.
Fulfilled(v) == [ok |-> TRUE, err |-> NoError, value |-> v]
Rejected(e) == [ok |-> FALSE, err |-> e, value |-> Absent]

\* The error_description a body carries beside its error field, which
\* `new Error(res.error_description)` (lines 151 and 189) takes as message.
error_description(r) ==
  CASE r.error = "invalid_grant" -> "The provided code has expired"
    [] r.error = "invalid_client" -> "Unknown client"
    [] r.error = "bad_token" -> "The user token is not valid"
    [] r.error = "expired_token" -> "The user token has expired"
    [] OTHER -> Absent

\* ConnectedAccountCommonOAuthTokenResponse as the code keeps it.
TokenResponse(r) == [access_token |-> r.access_token, error |-> r.error]
NoTokenData == [access_token |-> Absent, error |-> Absent]


\* exchangeCodeThen without the `if (res.error) throw` of line 151.
exchangeCodeThenNoErrorCheck(r) ==
  IF ~r.net THEN Rejected("FetchError")
  ELSE IF ~r.ok THEN Rejected("ApiError")
  ELSE IF ~r.json THEN Rejected("SyntaxError")
  ELSE Fulfilled(TokenResponse(r))

\* exchangeCode's .then(...).then(...) at lines 139-154: the value it yields
\* or the exception it throws, before the .catch.
exchangeCodeThen(r) ==
  IF ~r.net THEN Rejected("FetchError")
  ELSE IF ~r.ok THEN Rejected("ApiError")
  ELSE IF ~r.json THEN Rejected("SyntaxError")
  ELSE IF Truthy(r.error) THEN Rejected(error_description(r))
  ELSE Fulfilled(TokenResponse(r))

\* exchangeCodeCatch rethrowing the error it caught.
exchangeCodeCatchRethrow(o) == o

\* exchangeCode's .catch at lines 155-160: whatever was thrown, rethrow
\* DiscordApiErrors.GENERAL_ERROR.
exchangeCodeCatch(o) == IF o.ok THEN o ELSE Rejected(GENERAL_ERROR)

\* getUserTokenThen without the `if (!res.ok) throw` of lines 97-99.
getUserTokenThenNoStatusCheck(r) ==
  IF ~r.net THEN Rejected("FetchError")
  ELSE IF ~r.json THEN Rejected("SyntaxError")
  ELSE Fulfilled(r.Token)

\* getUserToken's .then(...).then((res) => res.Token) at lines 96-103.
getUserTokenThen(r) ==
  IF ~r.net THEN Rejected("FetchError")
  ELSE IF ~r.ok THEN Rejected("ApiError")
  ELSE IF ~r.json THEN Rejected("SyntaxError")
  ELSE Fulfilled(r.Token)

\* getUserTokenCatch rethrowing the error the other two stages rethrow.
getUserTokenCatchGeneral(o) == IF o.ok THEN o ELSE Rejected(GENERAL_ERROR)

\* getUserToken's .catch at lines 104-109.
getUserTokenCatch(o) == IF o.ok THEN o ELSE Rejected(INVALID_OAUTH_TOKEN)

\* getUserThen without the `if (!res.ok) throw` of lines 182-184.
getUserThenNoStatusCheck(r) ==
  IF ~r.net THEN Rejected("FetchError")
  ELSE IF ~r.json THEN Rejected("SyntaxError")
  ELSE IF Truthy(r.error) THEN Rejected(error_description(r))
  ELSE Fulfilled([claims |-> r.claims, xui |-> r.xui])

\* getUser's .then(...).then(...) at lines 181-191.
getUserThen(r) ==
  IF ~r.net THEN Rejected("FetchError")
  ELSE IF ~r.ok THEN Rejected("ApiError")
  ELSE IF ~r.json THEN Rejected("SyntaxError")
  ELSE IF Truthy(r.error) THEN Rejected(error_description(r))
  ELSE Fulfilled([claims |-> r.claims, xui |-> r.xui])

\* getUser's .catch at lines 192-197.
getUserCatch(o) == IF o.ok THEN o ELSE Rejected(GENERAL_ERROR)

NoUserInfo == [claims |-> FALSE, xui |-> NoClaims]

\* userInfo.DisplayClaims.xui[0] can be read (lines 210, 218, 220): the
\* DisplayClaims object, its xui array and the first entry are all there.
HasFirstClaim(info) == info.claims /\ Len(info.xui) >= 1

\* ------------------------------------------------------------- storage
NoTokenRecord == [access_token |-> Absent, error |-> Absent, fetched_at |-> 0]
NoRecord ==
  [token_data |-> NoTokenRecord, user_id |-> Absent, external_id |-> Absent,
   friend_sync |-> FALSE, name |-> Absent, type |-> Absent]

\* ConnectedAccountData taking the name and id from the last claims entry
\* and stamping no time.
ConnectedAccountDataLastClaim(td, uid, info, friend_sync, t) ==
  [token_data |-> [access_token |-> td.access_token, error |-> td.error,
                   fetched_at |-> 0],
   user_id |-> uid,
   external_id |-> info.xui[Len(info.xui)].xid,
   friend_sync |-> friend_sync,
   name |-> info.xui[Len(info.xui)].gtg,
   type |-> id]

\* The argument of createConnection built at lines 215-222.
ConnectedAccountData(td, uid, info, friend_sync, t) ==
  [token_data |-> [access_token |-> td.access_token, error |-> td.error,
                   fetched_at |-> t],
   user_id |-> uid,
   external_id |-> info.xui[1].xid,
   friend_sync |-> friend_sync,
   name |-> info.xui[1].gtg,
   type |-> id]

\* A record saved before: host user u2 has linked the Xbox account X1.
StoredBefore ==
  [token_data |-> [access_token |-> "AT0", error |-> Absent, fetched_at |-> 0],
   user_id |-> "u2", external_id |-> "X1", friend_sync |-> FALSE,
   name |-> "Gamer1", type |-> id]

\* hasConnectionArgs passing the gamertag where the xid belongs.
hasConnectionArgsGamertag(uid, info) == [uid |-> uid, xid |-> info.xui[1].gtg]

\* The arguments of the hasConnection call at lines 208-211.
hasConnectionArgs(uid, info) == [uid |-> uid, xid |-> info.xui[1].xid]

\* hasConnection(userId, externalId) against the stored records, for this
\* provider's tag.
hasConnection(records, uid, xid) ==
  \E r \in BagToSet(records) :
     r.user_id = uid /\ r.type = id /\ r.external_id = xid

\* createConnection(data): the stored records after the save.
createConnection(records, data) == records (+) SetToBag({data})

\* --------------------------------------------------------------- state
\* Per invocation: pc (the await it is suspended at), params and the locals
\* userId, tokenData, userInfo of handleCallback, result (what the caller
\* gets), trace (what it has done so far, in order).  inflight: the HTTP
\* requests and storage calls not answered yet.  store: the saved
\* ConnectedAccount records.  now: the time Date.now() last read.
\* settings: this.settings.  endpoint: Config.get().cdn.endpointPrivate.
\* urls: the authorization URLs getAuthorizationUrl has returned.
VARIABLES pc, params, userId, tokenData, userInfo, result, trace,
          inflight, store, now, settings, endpoint, urls

vars == <<pc, params, userId, tokenData, userInfo, result, trace,
          inflight, store, now, settings, endpoint, urls>>

Ev(kind, what) == [kind |-> kind, what |-> what]

Req(i, op, uid, arg, data) ==
  [call |-> i, op |-> op, uid |-> uid, arg |-> arg, data |-> data,
   form |-> NoForm]

\* The Stage A request exchangeCode sends for a code.
TokenRequest(i, code) ==
  [Req(i, "A", Absent, code, NoRecord)
     EXCEPT !.form = TokenForm(code, settings, endpoint)]

\* How an invocation ended, as its caller sees it: the kind of value its
\* promise settled with and, when it threw, the error.
Pending == [kind |-> "pending", err |-> NoError]
Threw(e) == [kind |-> "error", err |-> e]
ReturnedNull == [kind |-> "null", err |-> NoError]
ReturnedRecord == [kind |-> "record", err |-> NoError]
ReturnedTokens == [kind |-> "tokens", err |-> NoError]

InitWith(st, ep) ==
  /\ settings = st
  /\ endpoint = ep
  /\ urls = {}
  /\ pc = [i \in Calls |-> "idle"]
  /\ params = [i \in Calls |-> NoParams]
  /\ userId = [i \in Calls |-> Absent]
  /\ tokenData = [i \in Calls |-> NoTokenData]
  /\ userInfo = [i \in Calls |-> NoUserInfo]
  /\ result = [i \in Calls |-> Pending]
  /\ trace = [i \in Calls |-> << >>]
  /\ inflight = {}
  /\ store = SetToBag({StoredBefore})
  /\ now = 0

\* The connection is configured and the endpoint is set.
Init == InitWith(Configured, PrivateEndpoint)

\* The call of invocation i that is waiting for an answer.
Awaited(i) == {q \in inflight : q.call = i}

\* Invocations are numbered in the order they arrive.
NextToArrive(i) == pc[i] = "idle" /\ \A j \in Calls : j < i => pc[j] # "idle"

\* Invocation i runs on to its next await, where it waits for reqs.
Suspend(i, at, tr, p, uid, td, info, reqs) ==
  /\ pc' = [pc EXCEPT ![i] = at]
  /\ trace' = [trace EXCEPT ![i] = tr]
  /\ params' = [params EXCEPT ![i] = p]
  /\ userId' = [userId EXCEPT ![i] = uid]
  /\ tokenData' = [tokenData EXCEPT ![i] = td]
  /\ userInfo' = [userInfo EXCEPT ![i] = info]
  /\ inflight' = (inflight \ Awaited(i)) \cup reqs
  /\ UNCHANGED <<result, settings, endpoint, urls>>

\* Invocation i returns or throws: its promise settles with res and its
\* frame (the arguments and locals) is gone.
Settle(i, res, tr) ==
  /\ pc' = [pc EXCEPT ![i] = "done"]
  /\ result' = [result EXCEPT ![i] = res]
  /\ trace' = [trace EXCEPT ![i] = tr]
  /\ params' = [params EXCEPT ![i] = NoParams]
  /\ userId' = [userId EXCEPT ![i] = Absent]
  /\ tokenData' = [tokenData EXCEPT ![i] = NoTokenData]
  /\ userInfo' = [userInfo EXCEPT ![i] = NoUserInfo]
  /\ inflight' = inflight \ Awaited(i)
  /\ UNCHANGED <<settings, endpoint, urls>>

\* ------------------------------------------------------------- actions
\* exchangeCodeCall without the validateState of line 116.
exchangeCodeCallNoValidate(i, p, uid, sofar) ==
  Suspend(i, "awaitA", sofar \o <<Ev("request", "A")>>,
          p, uid, NoTokenData, NoUserInfo,
          {TokenRequest(i, p.code)})

\* exchangeCode(state, code) up to its fetch (lines 116-138): validateState,
\* then the Stage A request goes out.  p holds the caller's arguments, uid
\* the caller's userId, sofar what the caller has done before the call.
exchangeCodeCall(i, p, uid, sofar) ==
  IF validateState(p.state)
  THEN Suspend(i, "awaitA",
               sofar \o <<Ev("validateState", "ok"), Ev("request", "A")>>,
               p, uid, NoTokenData, NoUserInfo,
               {TokenRequest(i, p.code)})
  ELSE Settle(i, Threw(InvalidStateError),
              sofar \o <<Ev("validateState", "fail")>>)

\* handleCallback(params), lines 203-204, up to the first await: getUserId,
\* then exchangeCode.
HandleCallback(i, p) ==
  /\ NextToArrive(i)
  /\ p \in Callbacks \cup CallbacksNoCode
  /\ \E uid \in getUserId(p.state) :
       exchangeCodeCall(i, p, uid,
                        <<Ev("handleCallback", p.state.integrity),
                          Ev("getUserId", "return")>>)
  /\ UNCHANGED <<store, now>>

\* exchangeCode(state, code) called on its own (the token-exchange entry
\* point of the connection contract).
ExchangeCode(i, p) ==
  /\ NextToArrive(i)
  /\ p \in Exchanges
  /\ exchangeCodeCall(i, p, Absent, <<Ev("exchangeCode", p.state.integrity)>>)
  /\ UNCHANGED <<store, now>>

\* The answer to the Stage A request arrives: the rest of exchangeCode
\* (lines 139-160), then handleCallback line 205 up to getUserToken's fetch
\* (lines 79-95).
StageAResponse(i, r) ==
  /\ pc[i] = "awaitA"
  /\ r \in ResponsesA
  /\ LET o == exchangeCodeCatch(exchangeCodeThen(r))
         got == trace[i] \o <<Ev("response:A", RespClass(r))>>
     IN IF ~o.ok
        THEN Settle(i, Threw(o.err),
                    got \o <<Ev("caught", exchangeCodeThen(r).err), Ev("failed", "A")>>)
        ELSE IF params[i].entry = "exchangeCode"
        THEN Settle(i, ReturnedTokens, got \o <<Ev("succeeded", "A")>>)
        ELSE Suspend(i, "awaitB",
                     got \o <<Ev("succeeded", "A"), Ev("request", "B")>>,
                     params[i], userId[i], o.value, NoUserInfo,
                     {Req(i, "B", Absent, o.value.access_token, NoRecord)})
  /\ UNCHANGED <<store, now>>

\* StageBResponse trying Stage B a second time after a first failure.
StageBResponseRetry(i, r) ==
  /\ pc[i] = "awaitB"
  /\ r \in ResponsesB
  /\ LET o == getUserTokenCatch(getUserTokenThen(r))
         got == trace[i] \o <<Ev("response:B", RespClass(r))>>
         first == \A k \in DOMAIN trace[i] : trace[i][k].kind # "response:B"
     IN IF ~o.ok /\ first
        THEN Suspend(i, "awaitB", got \o <<Ev("request", "B")>>,
                     params[i], userId[i], tokenData[i], NoUserInfo,
                     {Req(i, "B", Absent, tokenData[i].access_token, NoRecord)})
        ELSE IF ~o.ok
        THEN Settle(i, Threw(o.err),
                    got \o <<Ev("caught", getUserTokenThen(r).err), Ev("failed", "B")>>)
        ELSE Suspend(i, "awaitC",
                     got \o <<Ev("succeeded", "B"), Ev("request", "C")>>,
                     params[i], userId[i], tokenData[i], NoUserInfo,
                     {Req(i, "C", Absent, o.value, NoRecord)})
  /\ UNCHANGED <<store, now>>

\* StageBResponse keeping the session token where the access token was.
StageBResponseKeepsToken(i, r) ==
  /\ pc[i] = "awaitB"
  /\ r \in ResponsesB
  /\ LET o == getUserTokenCatch(getUserTokenThen(r))
         got == trace[i] \o <<Ev("response:B", RespClass(r))>>
     IN IF ~o.ok
        THEN Settle(i, Threw(o.err),
                    got \o <<Ev("caught", getUserTokenThen(r).err), Ev("failed", "B")>>)
        ELSE Suspend(i, "awaitC",
                     got \o <<Ev("succeeded", "B"), Ev("request", "C")>>,
                     params[i], userId[i],
                     [tokenData[i] EXCEPT !.access_token = o.value],
                     NoUserInfo,
                     {Req(i, "C", Absent, o.value, NoRecord)})
  /\ UNCHANGED <<store, now>>

\* The answer to the Stage B request arrives: the rest of getUserToken
\* (lines 96-109), then handleCallback line 206 up to getUser's fetch
\* (lines 164-180).
StageBResponse(i, r) ==
  /\ pc[i] = "awaitB"
  /\ r \in ResponsesB
  /\ LET o == getUserTokenCatch(getUserTokenThen(r))
         got == trace[i] \o <<Ev("response:B", RespClass(r))>>
     IN IF ~o.ok
        THEN Settle(i, Threw(o.err),
                    got \o <<Ev("caught", getUserTokenThen(r).err), Ev("failed", "B")>>)
        ELSE Suspend(i, "awaitC",
                     got \o <<Ev("succeeded", "B"), Ev("request", "C")>>,
                     params[i], userId[i], tokenData[i], NoUserInfo,
                     {Req(i, "C", Absent, o.value, NoRecord)})
  /\ UNCHANGED <<store, now>>

\* StageCResponse going on to await hasConnection without having called it.
StageCResponseNeverAsks(i, r) ==
  /\ pc[i] = "awaitC"
  /\ r \in ResponsesC
  /\ LET o == getUserCatch(getUserThen(r))
         got == trace[i] \o <<Ev("response:C", RespClass(r))>>
     IN IF ~o.ok
        THEN Settle(i, Threw(o.err),
                    got \o <<Ev("caught", getUserThen(r).err), Ev("failed", "C")>>)
        ELSE Suspend(i, "awaitHas", got \o <<Ev("succeeded", "C")>>,
                     params[i], userId[i], tokenData[i], o.value, {})
  /\ UNCHANGED <<store, now>>

\* The answer to the Stage C request arrives: the rest of getUser (lines
\* 181-197), then handleCallback lines 208-211 up to the hasConnection
\* query; reading xui[0].xid of a response without a first claim throws.
StageCResponse(i, r) ==
  /\ pc[i] = "awaitC"
  /\ r \in ResponsesC
  /\ LET o == getUserCatch(getUserThen(r))
         got == trace[i] \o <<Ev("response:C", RespClass(r))>>
     IN IF ~o.ok
        THEN Settle(i, Threw(o.err),
                    got \o <<Ev("caught", getUserThen(r).err), Ev("failed", "C")>>)
        ELSE IF ~HasFirstClaim(o.value)
        THEN Settle(i, Threw(TypeError), got \o <<Ev("succeeded", "C")>>)
        ELSE Suspend(i, "awaitHas",
                     got \o <<Ev("succeeded", "C"), Ev("call", "hasConnection")>>,
                     params[i], userId[i], tokenData[i], o.value,
                     {Req(i, "hasConnection",
                          hasConnectionArgs(userId[i], o.value).uid,
                          hasConnectionArgs(userId[i], o.value).xid, NoRecord)})
  /\ UNCHANGED <<store, now>>

\* hasConnection answers from the records stored at that moment; then
\* lines 213-222 up to the createConnection call.  Date.now() at line 216
\* reads t, a time not before the last one read: that one again or the
\* next (times stand for the order of the reads, so no order is left out).
HasConnectionReturn(i, t) ==
  /\ pc[i] = "awaitHas"
  /\ t \in Times /\ t >= now /\ t <= now + 1
  /\ \E q \in Awaited(i) :
       LET exists == hasConnection(store, q.uid, q.arg)
       IN IF exists
          THEN /\ Settle(i, ReturnedNull, trace[i] \o <<Ev("exists", "yes")>>)
               /\ UNCHANGED now
          ELSE /\ Suspend(i, "awaitCreate",
                          trace[i] \o <<Ev("exists", "no"),
                                        Ev("call", "createConnection")>>,
                          params[i], userId[i], tokenData[i], userInfo[i],
                          {Req(i, "createConnection", Absent, Absent,
                               ConnectedAccountData(tokenData[i], userId[i],
                                  userInfo[i], params[i].friend_sync, t))})
               /\ now' = t
  /\ UNCHANGED store

\* CreateConnectionReturn saving the record in place of what was stored.
CreateConnectionReturnReplacing(i) ==
  /\ pc[i] = "awaitCreate"
  /\ \E q \in Awaited(i) :
       /\ store' = SetToBag({q.data})
       /\ Settle(i, ReturnedRecord,
                 trace[i] \o <<Ev("write", "createConnection")>>)
  /\ UNCHANGED now

\* createConnection saves the record and handleCallback returns it.
CreateConnectionReturn(i) ==
  /\ pc[i] = "awaitCreate"
  /\ \E q \in Awaited(i) :
       /\ store' = createConnection(store, q.data)
       /\ Settle(i, ReturnedRecord,
                 trace[i] \o <<Ev("write", "createConnection")>>)
  /\ UNCHANGED now

Next ==
  \/ \E i \in Calls, p \in Callbacks : HandleCallback(i, p)
  \/ \E i \in Calls, p \in Exchanges : ExchangeCode(i, p)
  \/ \E i \in Calls, r \in ResponsesA : StageAResponse(i, r)
  \/ \E i \in Calls, r \in ResponsesB : StageBResponse(i, r)
  \/ \E i \in Calls, r \in ResponsesC : StageCResponse(i, r)
  \/ \E i \in Calls, t \in Times : HasConnectionReturn(i, t)
  \/ \E i \in Calls : CreateConnectionReturn(i)

Spec == Init /\ [][Next]_vars

\* getAuthorizationUrl(userId), lines 55-72: no check, no request; the URL
\* is returned.
GetAuthorizationUrl(uid) ==
  /\ urls' = urls \cup {AuthorizationUrl(uid, settings, endpoint)}
  /\ UNCHANGED <<pc, params, userId, tokenData, userInfo, result, trace,
                 inflight, store, now, settings, endpoint>>

\* Callbacks that bring no code, with everything that follows them.
NextNoCode ==
  \/ \E i \in Calls, p \in CallbacksNoCode : HandleCallback(i, p)
  \/ \E i \in Calls, r \in ResponsesA : StageAResponse(i, r)
  \/ \E i \in Calls, r \in ResponsesB : StageBResponse(i, r)
  \/ \E i \in Calls, r \in ResponsesC : StageCResponse(i, r)
  \/ \E i \in Calls, t \in Times : HasConnectionReturn(i, t)
  \/ \E i \in Calls : CreateConnectionReturn(i)

SpecNoCode == Init /\ [][NextNoCode]_vars

\* Any settings and any endpoint, fixed from the start: authorization URLs
\* are asked for and codes are exchanged.
InitConfig == \E st \in SettingsChoices, ep \in Endpoints : InitWith(st, ep)

NextConfig ==
  \/ \E uid \in Users : GetAuthorizationUrl(uid)
  \/ \E i \in Calls, p \in Exchanges : ExchangeCode(i, p)
  \/ \E i \in Calls, r \in ResponsesA : StageAResponse(i, r)

SpecConfig == InitConfig /\ [][NextConfig]_vars

\* ---------------------------------------------------------- properties
Idx(tr) == 1 .. Len(tr)
Has(tr, e) == \E k \in Idx(tr) : tr[k] = e
HasBefore(tr, e, k) == \E j \in 1 .. (k - 1) : tr[j] = e
Count(tr, e) == Cardinality({k \in Idx(tr) : tr[k] = e})

Write == Ev("write", "createConnection")
Request(s) == Ev("request", s)
Succeeded(s) == Ev("succeeded", s)
Failed(s) == Ev("failed", s)
Response(s, class) ==
  Ev(CASE s = "A" -> "response:A" [] s = "B" -> "response:B"
       [] OTHER -> "response:C", class)

FailedAt(i, s) == Has(trace[i], Failed(s))
Finished(i) == pc[i] = "done"

\* The stored records for one (hostUserId, provider tag, externalId).
Linked(records, uid, tag, xid) ==
  {r \in BagToSet(records) :
     r.user_id = uid /\ r.type = tag /\ r.external_id = xid}

\* C1: an invocation writes (createConnection saves) at most once, and only
\* after each of Stage A, B and C has got a 2xx answer and returned; an
\* invocation that failed at the state check or at a stage, or that threw,
\* has written nothing; the store holds the record it began with and one
\* record per write.
C1_WriteOnlyAfterAllStages ==
  /\ \A i \in Calls :
       /\ Count(trace[i], Write) <= 1
       /\ \A k \in Idx(trace[i]) :
            trace[i][k] = Write =>
              \A s \in Stages :
                 /\ HasBefore(trace[i], Response(s, "2xx"), k)
                 /\ HasBefore(trace[i], Succeeded(s), k)
                 /\ Count(trace[i], Request(s)) = 1
       /\ ( \/ result[i].kind = "error"
            \/ Has(trace[i], Ev("validateState", "fail"))
            \/ \E s \in Stages : FailedAt(i, s) )
          => ~Has(trace[i], Write)
  /\ BagCardinality(store) =
       1 + Cardinality({i \in Calls : Has(trace[i], Write)})

\* One invocation has written after its three stages and another has failed
\* at Stage C without writing.
C1_Witness ==
  \E i, j \in Calls :
     /\ Has(trace[i], Write) /\ result[i].kind = "record"
     /\ FailedAt(j, "C") /\ Finished(j)

\* C2: in every reachable state the store holds at most one record per
\* (hostUserId, provider type tag, externalId).
C2_AtMostOneRecordPerTriple ==
  \A r \in BagToSet(store) :
     /\ CopiesIn(r, store) = 1
     /\ Linked(store, r.user_id, r.type, r.external_id) = {r}

\* C3: within one invocation the Stage B request goes out only after Stage A
\* has returned and the Stage C request only after Stage B has returned, at
\* most one stage request is outstanding, and after a non-2xx answer to
\* Stage B no Stage C request is sent.
C3_StagesSequentialFailFast ==
  \A i \in Calls :
     /\ \A k \in Idx(trace[i]) :
          /\ trace[i][k] = Request("B") =>
               HasBefore(trace[i], Succeeded("A"), k)
          /\ trace[i][k] = Request("C") =>
               HasBefore(trace[i], Succeeded("B"), k)
     /\ Cardinality({q \in Awaited(i) : q.op \in Stages}) <= 1
     /\ Has(trace[i], Response("B", "non2xx")) =>
          /\ ~Has(trace[i], Request("C"))
          /\ Finished(i) /\ result[i].kind = "error"

\* One invocation got a non-2xx answer at Stage B and stopped; another is
\* waiting for Stage C.
C3_Witness ==
  \E i, j \in Calls :
     /\ Has(trace[i], Response("B", "non2xx")) /\ Finished(i)
     /\ pc[j] = "awaitC" /\ Has(trace[j], Request("C"))

\* The invocation was handed a state token that validateState rejects.
BadState(i) ==
  \E k \in Idx(trace[i]) :
     /\ trace[i][k].kind \in {"handleCallback", "exchangeCode"}
     /\ trace[i][k].what # "ok"

\* C4: an invocation of handleCallback or exchangeCode handed a tampered,
\* expired or malformed state token has failed with InvalidStateError,
\* having sent no request, started no storage call and written nothing.
C4_BadStateFailsBeforeAnyRequest ==
  \A i \in Calls :
     BadState(i) =>
       /\ Finished(i)
       /\ result[i] = Threw(InvalidStateError)
       /\ \A s \in Stages : ~Has(trace[i], Request(s))
       /\ ~Has(trace[i], Write)
       /\ Awaited(i) = {}

\* A handleCallback handed a bad token and an exchangeCode handed a bad
\* token have both failed with InvalidStateError.
C4_Witness ==
  \E i, j \in Calls :
     /\ BadState(i) /\ Has(trace[i], Ev("getUserId", "return"))
     /\ result[i] = Threw(InvalidStateError)
     /\ BadState(j) /\ trace[j][1].kind = "exchangeCode"
     /\ result[j] = Threw(InvalidStateError)

\* C5: in an invocation, every getUserId call comes after a validateState
\* call that succeeded on the same token.
C5_GetUserIdAfterValidateState ==
  \A i \in Calls :
     \A k \in Idx(trace[i]) :
        trace[i][k].kind = "getUserId" =>
          HasBefore(trace[i], Ev("validateState", "ok"), k)

StageAFailure(i) ==
  /\ Finished(i)
  /\ result[i] = Threw(GENERAL_ERROR)
  /\ ~Has(trace[i], Request("B"))
  /\ ~Has(trace[i], Request("C"))
  /\ ~Has(trace[i], Write)

\* The 2xx JSON answer of Stage A carried an error field (empty or not).
StageAErrorField(i) ==
  \/ Has(trace[i], Response("A", "2xx:error"))
  \/ tokenData[i].error # Absent

\* C7 as stated: after a non-2xx answer to Stage A, or a 2xx answer whose
\* JSON body carries an error field, the invocation fails with Stage A's
\* error, with no Stage B or C request and no write.
C7_StageAErrorFieldFails ==
  \A i \in Calls :
     (Has(trace[i], Response("A", "non2xx")) \/ StageAErrorField(i))
       => StageAFailure(i)

\* C7 amended: the same, for a 2xx body whose error field is not empty.
C7_StageANonEmptyErrorFails ==
  \A i \in Calls :
     ( \/ Has(trace[i], Response("A", "non2xx"))
       \/ Has(trace[i], Response("A", "2xx:error")) )
       => StageAFailure(i)

\* One invocation got a non-2xx answer at Stage A and another a 2xx answer
\* reporting an error.
C7_Witness ==
  \E i, j \in Calls :
     /\ Has(trace[i], Response("A", "non2xx")) /\ Finished(i)
     /\ Has(trace[j], Response("A", "2xx:error")) /\ Finished(j)

\* C8: an invocation that failed at Stage B threw InvalidCredentialError,
\* and every Stage C request carries a session token: getUserToken never
\* returned without one.
C8_StageCAlwaysGetsAToken ==
  /\ \A i \in Calls : FailedAt(i, "B") => result[i] = Threw(INVALID_OAUTH_TOKEN)
  /\ \A q \in inflight : q.op = "C" => q.arg # Absent

\* C9: when hasConnection answers while a record is stored for the
\* invocation's (userId, provider tag, xid), the invocation returns null
\* and the store is left as it was, so a second run with the same user and
\* external id after the first has saved its record adds nothing.
C9_ExistingRecordReturnsNull ==
  [][ \A j \in Calls :
        ( /\ pc[j] = "awaitHas"
          /\ pc'[j] # "awaitHas"
          /\ Linked(store, userId[j], id, userInfo[j].xui[1].xid) # {} )
        => /\ pc'[j] = "done"
           /\ result'[j] = ReturnedNull
           /\ ~Has(trace'[j], Write)
           /\ store' = store ]_vars

\* One invocation has created the record and another, for the same user and
\* external id, has returned null; that record is the only one added.
C9_Witness ==
  \E i, j \in Calls :
     /\ result[i].kind = "record"
     /\ result[j].kind = "null"
     /\ BagCardinality(store) = 2

\* C10: when hasConnection answers and no record is stored for the pair, the
\* invocation calls createConnection with external_id and name the xid and
\* gtg of the first xui entry, user_id the id of the state token, type the
\* provider tag, friend_sync the caller's value and token_data the Stage A
\* response plus fetched_at = the time Date.now() reads at that call; when createConnection
\* returns, exactly that one record has been added to the store and is the
\* result.
C10_CreatedRecordFields ==
  [][ \A i \in Calls :
        /\ ( /\ pc[i] = "awaitHas"
             /\ pc'[i] # "awaitHas"
             /\ Linked(store, userId[i], id, userInfo[i].xui[1].xid) = {} )
           => /\ pc'[i] = "awaitCreate"
              /\ store' = store
              /\ {q \in inflight' : q.call = i} =
                   { Req(i, "createConnection", Absent, Absent,
                       [token_data |->
                          [access_token |-> tokenData[i].access_token,
                           error |-> tokenData[i].error,
                           fetched_at |-> now'],
                        user_id |-> params[i].state.uid,
                        external_id |-> Head(userInfo[i].xui).xid,
                        friend_sync |-> params[i].friend_sync,
                        name |-> Head(userInfo[i].xui).gtg,
                        type |-> "xbox"]) }
        /\ ( pc[i] = "awaitCreate" /\ pc'[i] # "awaitCreate" )
           => \A q \in Awaited(i) :
                /\ result'[i] = ReturnedRecord
                /\ store' = store (+) SetToBag({q.data})
                /\ BagCardinality(store') = BagCardinality(store) + 1 ]_vars

\* An invocation whose Stage C answer listed two claims entries has created
\* its record after the clock moved.
C10_Witness ==
  /\ \E i \in Calls : result[i].kind = "record"
  /\ \E r \in BagToSet(store) :
        /\ r.user_id = "u1"
        /\ r.external_id = "X2"
        /\ r.name = "Gamer2"
        /\ r.token_data.fetched_at > 0

\* C11: every invocation that threw carries InvalidStateError, Stage A's or
\* Stage C's error or Stage B's error; one whose Stage C answer was outside
\* 2xx, reported an error or had no first claims entry threw
\* GeneralProviderError and wrote nothing.
C11_EveryFailureIsATaxonomyError ==
  \A i \in Calls :
     /\ result[i].kind = "error" =>
          result[i].err \in {InvalidStateError, GENERAL_ERROR, INVALID_OAUTH_TOKEN}
     /\ ( \/ FailedAt(i, "C")
          \/ (Has(trace[i], Succeeded("C")) /\ ~Has(trace[i], Ev("call", "hasConnection"))) )
        => /\ result[i] = Threw(GENERAL_ERROR)
           /\ ~Has(trace[i], Write)

\* C15: an invocation sends at most one request to each of the three stage
\* endpoints, and none to an endpoint that has already answered it.
C15_OneRequestPerStage ==
  \A i \in Calls :
     /\ Cardinality({q \in Awaited(i) : q.op \in Stages}) <= 1
     /\ \A k \in Idx(trace[i]) :
          trace[i][k].kind = "request" =>
            \A j \in 1 .. (k - 1) :
               /\ trace[i][j] # trace[i][k]
               /\ trace[i][j].kind # Response(trace[i][k].what, "2xx").kind

\* One invocation got no answer at Stage B and another a non-2xx answer at
\* Stage C; each has ended after its single request to that stage.
C15_Witness ==
  \E i, j \in Calls :
     /\ Has(trace[i], Response("B", "neterr")) /\ Finished(i)
     /\ Count(trace[i], Request("B")) = 1
     /\ Has(trace[j], Response("C", "non2xx")) /\ Finished(j)
     /\ Count(trace[j], Request("C")) = 1

\* The session tokens Stage B hands out.
SessionTokens == {r.Token : r \in ResponsesB} \ {Absent}

\* The values a record (or a record about to be saved) holds.
FieldsOf(rec) ==
  {rec.token_data.access_token, rec.token_data.error, rec.user_id,
   rec.external_id, rec.name, rec.type}

\* C16: a session token is carried by Stage C requests only, an invocation
\* sends one Stage C request at most and sends it right after getUserToken
\* returned; no local kept across an await, no createConnection argument
\* and no stored record holds a session token.
C16_SessionTokenUsedOnceNeverStored ==
  /\ \A q \in inflight :
       /\ (q.arg \in SessionTokens \/ q.uid \in SessionTokens) => q.op = "C"
       /\ FieldsOf(q.data) \cap SessionTokens = {}
  /\ \A rec \in BagToSet(store) : FieldsOf(rec) \cap SessionTokens = {}
  /\ \A i \in Calls :
       /\ {userId[i], tokenData[i].access_token, tokenData[i].error}
            \cap SessionTokens = {}
       /\ Count(trace[i], Request("C")) <= 1
       /\ \A k \in Idx(trace[i]) :
            trace[i][k] = Request("C") =>
              k > 1 /\ trace[i][k - 1] = Succeeded("B")

\* One invocation is waiting for Stage C with a session token in its request
\* and another has saved its record.
C16_Witness ==
  \E i, j \in Calls :
     /\ \E q \in Awaited(i) : q.op = "C" /\ q.arg \in SessionTokens
     /\ result[j].kind = "record"

\* C18: no step takes a stored record away or changes one: every record
\* stays as many times as it was, and a step adds one record at most, which
\* is the step on which one invocation's createConnection returns.
C18_StoredRecordsUntouched ==
  [][ /\ \A rec \in BagToSet(store) : CopiesIn(rec, store') >= CopiesIn(rec, store)
      /\ BagCardinality(store') <= BagCardinality(store) + 1
      /\ store' # store =>
           Cardinality({i \in Calls : pc[i] = "awaitCreate" /\ pc'[i] = "done"}) = 1
      /\ \A i \in Calls :
           (pc[i] # "awaitCreate" /\ pc'[i] # pc[i]) => store' = store ]_vars

\* The record stored beforehand is still there beside a new one, after one
\* invocation created a record and another returned null.
C18_Witness ==
  /\ BagIn(StoredBefore, store)
  /\ BagCardinality(store) = 2
  /\ \E i, j \in Calls : result[i].kind = "record" /\ result[j].kind = "null"

\* What the three stages can catch: the messages of transport errors, of
\* status errors, of parse errors and of the errors thrown for an error field.
UpstreamTexts ==
  {exchangeCodeThen(r).err : r \in ResponsesA}
    \cup {getUserTokenThen(r).err : r \in ResponsesB}
    \cup {getUserThen(r).err : r \in ResponsesC}

\* What the .catch of the stage an invocation failed at had caught.
CaughtBy(i) == {e \in UpstreamTexts \ {NoError} : Has(trace[i], Ev("caught", e))}

\* C12: two invocations that failed at the same stage threw the same error
\* whatever each had caught from upstream, and no invocation throws
\* something a stage caught.
C12_ErrorIndependentOfUpstreamText ==
  /\ \A i, j \in Calls :
       \A s \in Stages :
          (FailedAt(i, s) /\ FailedAt(j, s)) => result[i] = result[j]
  /\ \A i \in Calls : result[i].err \notin UpstreamTexts \ {NoError}

\* Two invocations have failed at Stage A, one on the description of an
\* error field and the other on a different description or on a transport
\* error; two others differ likewise at Stage C.
C12_Witness ==
  \E i, j \in Calls :
     /\ Finished(i) /\ Finished(j)
     /\ \E s \in {"A", "C"} : FailedAt(i, s) /\ FailedAt(j, s)
     /\ Has(trace[i], Ev("caught", "The provided code has expired"))
          \/ Has(trace[i], Ev("caught", "The user token is not valid"))
     /\ CaughtBy(j) # {} /\ CaughtBy(j) # CaughtBy(i)

\* A request or a storage call an invocation is waiting for returns.
Returns ==
  \E i \in Calls :
     \/ \E r \in ResponsesA : StageAResponse(i, r)
     \/ \E r \in ResponsesB : StageBResponse(i, r)
     \/ \E r \in ResponsesC : StageCResponse(i, r)
     \/ \E t \in Times : HasConnectionReturn(i, t)
     \/ CreateConnectionReturn(i)

\* Every request and storage call eventually returns: while one is
\* outstanding, one does return.
LiveSpec == Spec /\ WF_vars(Returns)

\* An invocation of handleCallback is past Stage A and has not ended.
PastStageA(i) ==
  /\ Has(trace[i], Succeeded("A"))
  /\ trace[i][1].kind = "handleCallback"
  /\ ~(pc[i] = "done" /\ result[i].kind \in {"record", "null", "error"})

\* C17: an invocation whose Stage A succeeded eventually ends, with a
\* record, with null or with an error: from some point on, no invocation
\* is past Stage A without having ended (an invocation runs once and stays
\* ended).
C17_EndsOnceStageASucceeded == <>[](\A i \in Calls : ~PastStageA(i))

\* After Stage A succeeded, one invocation has ended with a record and
\* another with an error.
C17_Witness ==
  \E i, j \in Calls :
     /\ Has(trace[i], Succeeded("A")) /\ Has(trace[j], Succeeded("A"))
     /\ Finished(i) /\ result[i].kind = "record"
     /\ Finished(j) /\ result[j].kind = "error"

\* C13: an invocation of handleCallback whose code is empty or missing has
\* made no Stage B or Stage C request and no storage call.
C13_NoCodeFailsBeforeStageB ==
  \A i \in Calls :
     (params[i].entry = "handleCallback" /\ ~Truthy(params[i].code))
       => /\ ~Has(trace[i], Request("B"))
          /\ ~Has(trace[i], Request("C"))
          /\ ~Has(trace[i], Ev("call", "hasConnection"))
          /\ ~Has(trace[i], Ev("call", "createConnection"))

\* The Stage A requests that have gone out and are not answered yet.
TokenRequests == {q \in inflight : q.op = "A"}

\* C14: with clientId or clientSecret missing from the settings, no
\* authorization URL has been returned and no Stage A request is out that
\* carries a missing credential.
C14_MissingCredentialFailsFast ==
  (settings.clientId = Absent \/ settings.clientSecret = Absent)
    => /\ urls = {}
       /\ \A q \in TokenRequests :
            /\ q.form.client_id # Absent
            /\ Absent \notin {q.form.authorization[k] : k \in DOMAIN q.form.authorization}

\* C19: whatever the endpoint is configured as, the redirect_uri of every
\* Stage A request equals the redirect_uri of every authorization URL
\* returned, and both are built on the endpoint or, when it is not set,
\* on the local fallback.
C19_RedirectUriMatches ==
  /\ \A q \in TokenRequests :
       \A u \in urls : q.form.redirect_uri = u.redirect_uri
  /\ \A q \in TokenRequests :
       q.form.redirect_uri[1] \in {PrivateEndpoint, LocalFallback}

\* With the endpoint not set, an authorization URL has been returned and a
\* Stage A request is out.
C19_Witness ==
  /\ endpoint \in {Absent, ""}
  /\ urls # {}
  /\ TokenRequests # {}

====
